---- MODULE Spec2Model ----
(***************************************************************************)
(* Perplexity MCP server: the layered configuration loader                 *)
(* (perplexity_mcp/config.py) and the search tool (perplexity_mcp/         *)
(* server.py).                                                             *)
(*                                                                         *)
(* Python values are records tagged with their type, so that the dynamic   *)
(* typing of the merge (setattr of whatever the file holds) and the        *)
(* TypeErrors of the validation are part of the model. Python str          *)
(* payloads are TLA+ strings.                                              *)
(***************************************************************************)
EXTENDS Integers, Sequences, FiniteSets, TLC

VARIABLES
    env,        \* os.environ: a function from the names that are set to their values
    file,       \* the configuration file on disk (config.json)
    cm_config,  \* ConfigManager._config
    result,     \* what the last load_config call did: returned config or raised
    loaded,     \* the load_config calls so far: the file read, the object returned or the raise
    saved,      \* what the last save_config call did, and the file it left
    server,     \* the server module: "importing", "ready", or "failed" (import raised)
    config,     \* server.py's module-level config
    calls,      \* the search calls running side by side, each with its own locals
    clients,    \* the httpx.AsyncClient objects created by those calls, in order of creation
    pc,         \* where the search call stands: "idle", "called", "prepared", "awaiting", "done"
    req,        \* the arguments of the search call: keyword, model, system_message, ctx
    used,       \* the locals used_model and used_system_message
    client,     \* the httpx.AsyncClient of the call
    request,    \* the POST the call issued
    received,   \* what the transport gave to client.post: a response or an exception
    log,        \* what the call did, in order: sink events, client created and closed, POST, the outcome
    outcome,    \* how the call ended: the text returned or the exception raised
    psettings,  \* a ProxySettings value
    presult     \* what the last method called on psettings returned

cfgvars == <<env, file, cm_config, result, loaded, saved>>
callvars == <<pc, req, used, client, request, received, log, outcome>>
srvvars == <<server, config, calls, clients>>
proxyvars == <<psettings, presult>>
vars == <<cfgvars, srvvars, callvars, proxyvars>>

----------------------------------------------------------------------------
(* Bounds *)

\* total number of environment variables set plus entries present in the file
MaxSettings == 2

\* the most choices a response payload holds
MaxChoices == 2

\* the most citations a response payload holds
MaxCitations == 2

\* load_config calls in a run of the configuration manager
MaxLoads == 2

\* search calls running side by side
MaxCalls == 2

----------------------------------------------------------------------------
(* Python values *)

\* One shape for every value, so that any two can be compared: the type t, and
\* the payload in the field of that type (s: str; n: int, float and bool as 0/1;
\* f: dict, a function from its keys; q: list)
EmptyMap == [k \in {} |-> 0]

None == [t |-> "none", s |-> "", n |-> 0, f |-> EmptyMap, q |-> <<>>]
S(x) == [None EXCEPT !.t = "str", !.s = x]
I(x) == [None EXCEPT !.t = "int", !.n = x]
Fl(x) == [None EXCEPT !.t = "float", !.n = x]
B(x) == [None EXCEPT !.t = "bool", !.n = IF x THEN 1 ELSE 0]
D(x) == [None EXCEPT !.t = "dict", !.f = x]
L(x) == [None EXCEPT !.t = "list", !.q = x]

\* bool(x)
Truthy(x) ==
    CASE x.t = "str" -> x.s # ""
      [] x.t \in {"int", "float", "bool"} -> x.n # 0
      [] x.t = "dict" -> DOMAIN x.f # {}
      [] x.t = "list" -> Len(x.q) # 0
      [] OTHER -> FALSE

\* the operands of <, <= that do not raise TypeError against an int
IsNumber(x) == x.t \in {"int", "float", "bool"}

NumVal(x) == x.n

----------------------------------------------------------------------------
(* str helpers *)

UpperChars == "ABCDEFGHIJKLMNOPQRSTUVWXYZ"
LowerChars == "abcdefghijklmnopqrstuvwxyz"

\* s[i-1:j], as Python slices: out of range is empty
Slice(s, i, j) ==
    IF i > j \/ i > Len(s) THEN "" ELSE SubSeq(s, i, IF j > Len(s) THEN Len(s) ELSE j)

CharAt(s, i) == Slice(s, i, i)

LowerChar(c) ==
    IF \E i \in 1..Len(UpperChars) : CharAt(UpperChars, i) = c
    THEN CharAt(LowerChars, CHOOSE i \in 1..Len(UpperChars) : CharAt(UpperChars, i) = c)
    ELSE c

RECURSIVE Lower(_)
\* str.lower()
Lower(s) == IF s = "" THEN "" ELSE LowerChar(CharAt(s, 1)) \o Lower(SubSeq(s, 2, Len(s)))

\* str.startswith(p)
StartsWith(s, p) == Len(p) <= Len(s) /\ SubSeq(s, 1, Len(p)) = p

\* p in s, for str
Contains(s, p) == \E i \in 1..(Len(s) - Len(p) + 1) : SubSeq(s, i, i + Len(p) - 1) = p

RECURSIVE Strip(_)
\* str.strip() (blanks only)
Strip(s) ==
    IF s = "" THEN ""
    ELSE IF CharAt(s, 1) = " " THEN Strip(SubSeq(s, 2, Len(s)))
    ELSE IF CharAt(s, Len(s)) = " " THEN Strip(SubSeq(s, 1, Len(s) - 1))
    ELSE s

Digits == "0123456789"

IsDigit(c) == \E i \in 1..Len(Digits) : CharAt(Digits, i) = c

DigitVal(c) == (CHOOSE i \in 1..Len(Digits) : CharAt(Digits, i) = c) - 1

RECURSIVE DigitsVal(_)
DigitsVal(s) ==
    IF s = "" THEN 0
    ELSE 10 * DigitsVal(SubSeq(s, 1, Len(s) - 1)) + DigitVal(CharAt(s, Len(s)))

AllDigits(s) == s # "" /\ \A i \in 1..Len(s) : IsDigit(CharAt(s, i))

\* the literals int() accepts: blanks around an optional sign and decimal digits
IsIntLiteral(s) ==
    LET u == Strip(s)
    IN  \/ AllDigits(u)
        \/ Len(u) > 1 /\ CharAt(u, 1) \in {"+", "-"} /\ AllDigits(SubSeq(u, 2, Len(u)))

IntLiteralVal(s) ==
    LET u == Strip(s)
    IN  IF CharAt(u, 1) = "-" THEN 0 - DigitsVal(SubSeq(u, 2, Len(u)))
        ELSE IF CharAt(u, 1) = "+" THEN DigitsVal(SubSeq(u, 2, Len(u)))
        ELSE DigitsVal(u)

----------------------------------------------------------------------------
(* Settings types and their defaults *)

PerplexityFields ==
    {"api_key", "api_url", "model", "model_prefix", "system_message",
     "timeout", "max_retries", "retry_delay"}

ServerFields == {"host", "port", "path", "log_level", "enable_cors", "max_request_size"}

ProxyFields == {"http_proxy", "https_proxy", "all_proxy", "no_proxy"}

PerplexitySettings ==
    [api_key |-> S(""),
     api_url |-> S("https://api.perplexity.ai/chat/completions"),
     model |-> S("sonar"),
     model_prefix |-> S(""),
     system_message |-> S("Be precise and concise."),
     timeout |-> Fl(30),
     max_retries |-> I(3),
     retry_delay |-> Fl(1)]

ProxySettings ==
    [http_proxy |-> S(""), https_proxy |-> S(""), all_proxy |-> S(""), no_proxy |-> S("")]

ServerSettings ==
    [host |-> S("127.0.0.1"),
     port |-> I(8000),
     path |-> S("/mcp"),
     log_level |-> S("info"),
     enable_cors |-> B(TRUE),
     max_request_size |-> I(1024 * 1024)]

AppConfig(perplexity_, server_, proxy_) ==
    [perplexity |-> perplexity_, server |-> server_, proxy |-> proxy_,
     debug |-> B(FALSE), config_version |-> S("1.0")]

----------------------------------------------------------------------------
(* ConfigManager: parsing of environment values *)

\* os.getenv(name)
Getenv(e, name) == IF name \in DOMAIN e THEN S(e[name]) ELSE None

\* os.getenv(name, default)
GetenvOr(e, name, default) == IF name \in DOMAIN e THEN S(e[name]) ELSE S(default)

\* a or b
PyOr(a, b) == IF Truthy(a) THEN a ELSE b

parse_int(value) ==
    IF value = None \/ value = S("") THEN None
    ELSE IF IsIntLiteral(value.s) THEN I(IntLiteralVal(value.s))
    ELSE None

\* float() of the literals modelled: the integer literals (no fraction, exponent, inf, nan)
parse_float(value) ==
    IF value = None \/ value = S("") THEN None
    ELSE IF IsIntLiteral(value.s) THEN Fl(IntLiteralVal(value.s))
    ELSE None

parse_bool(value) ==
    IF value = None \/ value = S("") THEN None
    ELSE B(Lower(value.s) \in {"true", "1", "yes", "on"})

\* the dict built by "for key, value in d.items(): if keep(value): out[key] = value"
Filtered(d, Keep(_)) == [k \in {j \in DOMAIN d : Keep(d[j])} |-> d[k]]

NotNoneNotEmpty(value) == value # None /\ value # S("")

env_debug(e) == B(Lower(GetenvOr(e, "DEBUG", "").s) \in {"true", "1", "yes"})

load_from_env(e) ==
    LET perplexity_env ==
            [api_key |-> GetenvOr(e, "PERPLEXITY_API_KEY", ""),
             api_url |-> GetenvOr(e, "PERPLEXITY_API_URL", ""),
             model |-> GetenvOr(e, "PERPLEXITY_MODEL", ""),
             model_prefix |-> GetenvOr(e, "PERPLEXITY_MODEL_PREFIX", ""),
             system_message |-> GetenvOr(e, "PERPLEXITY_SYSTEM_MESSAGE", ""),
             timeout |-> parse_float(Getenv(e, "PERPLEXITY_TIMEOUT")),
             max_retries |-> parse_int(Getenv(e, "PERPLEXITY_MAX_RETRIES")),
             retry_delay |-> parse_float(Getenv(e, "PERPLEXITY_RETRY_DELAY"))]
        server_env ==
            [host |-> GetenvOr(e, "MCP_HOST", ""),
             port |-> parse_int(Getenv(e, "MCP_PORT")),
             path |-> GetenvOr(e, "MCP_PATH", ""),
             log_level |-> GetenvOr(e, "LOG_LEVEL", ""),
             enable_cors |-> parse_bool(Getenv(e, "ENABLE_CORS")),
             max_request_size |-> parse_int(Getenv(e, "MAX_REQUEST_SIZE"))]
        proxy_env ==
            [http_proxy |-> PyOr(Getenv(e, "HTTP_PROXY"), GetenvOr(e, "http_proxy", "")),
             https_proxy |-> PyOr(Getenv(e, "HTTPS_PROXY"), GetenvOr(e, "https_proxy", "")),
             all_proxy |-> PyOr(Getenv(e, "ALL_PROXY"), GetenvOr(e, "all_proxy", "")),
             no_proxy |-> PyOr(Getenv(e, "NO_PROXY"), GetenvOr(e, "no_proxy", ""))]
    IN  [perplexity |-> D(Filtered(perplexity_env, NotNoneNotEmpty)),
         server |-> D(Filtered(server_env, NotNoneNotEmpty)),
         proxy |-> D(Filtered(proxy_env, Truthy)),
         debug |-> env_debug(e)]

----------------------------------------------------------------------------
(* ConfigManager: the file *)

\* The file on disk: absent (nodir: its directory absent too), unreadable (open raises OSError), bytes that are not
\* UTF-8, text that is not JSON (the empty file included), or JSON text, held as
\* the value json.load returns for it.
FileMissing == [kind |-> "missing", val |-> None]
FileNoDir == [kind |-> "nodir", val |-> None]
FileUnreadable == [kind |-> "unreadable", val |-> None]
FileBadUtf8 == [kind |-> "badutf8", val |-> None]
FileNotJson == [kind |-> "notjson", val |-> None]
FileJson(x) == [kind |-> "json", val |-> x]

Ok(x) == [exc |-> "", val |-> x]
Raise(name) == [exc |-> name, val |-> None]

\* returns the parsed value; warned records the printed warning
load_from_file(f) ==
    CASE f.kind \in {"missing", "nodir"} -> [exc |-> "", val |-> D(EmptyMap), warned |-> FALSE]
      [] f.kind = "unreadable" -> [exc |-> "", val |-> D(EmptyMap), warned |-> TRUE]
      [] f.kind = "notjson" -> [exc |-> "", val |-> D(EmptyMap), warned |-> TRUE]
      [] f.kind = "badutf8" -> [exc |-> "UnicodeDecodeError", val |-> None, warned |-> FALSE]
      [] f.kind = "json" -> [exc |-> "", val |-> f.val, warned |-> FALSE]

----------------------------------------------------------------------------
(* ConfigManager._merge_configs *)

\* "key in file_config" followed by file_config[key]: present says whether the
\* branch is taken, val is the value subscripted
FileSection(fc, key) ==
    CASE fc.t = "dict" ->
            IF key \in DOMAIN fc.f THEN [exc |-> "", present |-> TRUE, val |-> fc.f[key]]
            ELSE [exc |-> "", present |-> FALSE, val |-> None]
      [] fc.t = "list" ->
            IF \E i \in 1..Len(fc.q) : fc.q[i] = S(key)
            THEN [exc |-> "TypeError", present |-> TRUE, val |-> None]
            ELSE [exc |-> "", present |-> FALSE, val |-> None]
      [] fc.t = "str" ->
            IF Contains(fc.s, key)
            THEN [exc |-> "TypeError", present |-> TRUE, val |-> None]
            ELSE [exc |-> "", present |-> FALSE, val |-> None]
      [] OTHER -> [exc |-> "TypeError", present |-> FALSE, val |-> None]

\* "for key, value in section.items(): if hasattr(target, key): setattr(target, key, value)"
\* hasattr is membership in the dataclass fields (dunder names are not among the keys drawn)
ApplySection(target, section) ==
    [k \in DOMAIN target |-> IF k \in DOMAIN section.f THEN section.f[k] ELSE target[k]]

\* the part of _merge_configs that applies the file: lines 224-236
ApplyFile(cfg, fc) ==
    LET p == FileSection(fc, "perplexity")
        s == FileSection(fc, "server")
        d == FileSection(fc, "debug")
    IN  IF p.exc # "" THEN Raise(p.exc)
        ELSE IF p.present /\ p.val.t # "dict" THEN Raise("AttributeError")
        ELSE IF s.exc # "" THEN Raise(s.exc)
        ELSE IF s.present /\ s.val.t # "dict" THEN Raise("AttributeError")
        ELSE IF d.exc # "" THEN Raise(d.exc)
        ELSE Ok([cfg EXCEPT
                    !.perplexity = IF p.present THEN ApplySection(@, p.val) ELSE @,
                    !.server = IF s.present THEN ApplySection(@, s.val) ELSE @,
                    !.debug = IF d.present THEN d.val ELSE @])

\* the part of _merge_configs that applies the environment: lines 238-250
ApplyEnv(cfg, ec) ==
    [cfg EXCEPT
        !.perplexity = ApplySection(@, ec.perplexity),
        !.server = ApplySection(@, ec.server),
        !.debug = ec.debug]

merge_configs(file_config, env_config) ==
    LET cfg == AppConfig(PerplexitySettings, ServerSettings, ProxySettings)
        a == ApplyFile(cfg, file_config)
    IN  IF a.exc # "" THEN a ELSE Ok(ApplyEnv(a.val, env_config))

----------------------------------------------------------------------------
(* ConfigManager._validate_config *)

W_API_KEY == "api_key"
W_TIMEOUT == "timeout"
W_MAX_RETRIES == "max_retries"
W_PORT == "port"
W_MAX_REQUEST_SIZE == "max_request_size"

\* the errors list (as a set) or the TypeError of comparing a non-number
validate_config(cfg) ==
    LET p == cfg.perplexity
        s == cfg.server
    IN  IF ~(IsNumber(p.timeout) /\ IsNumber(p.max_retries)
             /\ IsNumber(s.port) /\ IsNumber(s.max_request_size))
        THEN [exc |-> "TypeError", errors |-> {}]
        ELSE [exc |-> "",
              errors |->
                  (IF ~Truthy(p.api_key) THEN {W_API_KEY} ELSE {})
                  \cup (IF NumVal(p.timeout) <= 0 THEN {W_TIMEOUT} ELSE {})
                  \cup (IF NumVal(p.max_retries) < 0 THEN {W_MAX_RETRIES} ELSE {})
                  \cup (IF ~(1 <= NumVal(s.port) /\ NumVal(s.port) <= 65535)
                        THEN {W_PORT} ELSE {})
                  \cup (IF NumVal(s.max_request_size) <= 0
                        THEN {W_MAX_REQUEST_SIZE} ELSE {})]

----------------------------------------------------------------------------
(* ConfigManager.load_config *)

NoConfig == [t |-> "none", v |-> EmptyMap]

\* exc is "" when load_config returns; config is then the AppConfig returned,
\* warnings what was printed
load_config(e, f) ==
    LET lf == load_from_file(f)
        mc == merge_configs(lf.val, load_from_env(e))
        vc == validate_config(mc.val)
    IN  IF lf.exc # "" THEN [exc |-> lf.exc, config |-> NoConfig, warnings |-> {}]
        ELSE IF mc.exc # "" THEN [exc |-> mc.exc, config |-> NoConfig, warnings |-> {}]
        ELSE IF vc.exc # "" THEN [exc |-> vc.exc, config |-> NoConfig, warnings |-> {}]
        ELSE [exc |-> "", config |-> [t |-> "AppConfig", v |-> mc.val],
              warnings |-> vc.errors \cup (IF lf.warned THEN {"file"} ELSE {})]


----------------------------------------------------------------------------
(* The inputs drawn: environments and files *)

StrEnvNames ==
    {"PERPLEXITY_API_KEY", "PERPLEXITY_API_URL", "PERPLEXITY_MODEL",
     "PERPLEXITY_MODEL_PREFIX", "PERPLEXITY_SYSTEM_MESSAGE",
     "MCP_HOST", "MCP_PATH", "LOG_LEVEL"}

NumEnvNames ==
    {"PERPLEXITY_TIMEOUT", "PERPLEXITY_MAX_RETRIES", "PERPLEXITY_RETRY_DELAY",
     "MCP_PORT", "MAX_REQUEST_SIZE"}

BoolEnvNames == {"ENABLE_CORS", "DEBUG"}

ProxyEnvNames ==
    {"HTTP_PROXY", "HTTPS_PROXY", "ALL_PROXY", "NO_PROXY",
     "http_proxy", "https_proxy", "all_proxy", "no_proxy"}

EnvNames == StrEnvNames \cup NumEnvNames \cup BoolEnvNames \cup ProxyEnvNames

\* the values a variable is given when it is set
EnvValues(n) ==
    IF n = "PERPLEXITY_MODEL" THEN {"", "sonar-pro"}
    ELSE IF n = "PERPLEXITY_MODEL_PREFIX" THEN {"", "org-"}
    ELSE IF n \in StrEnvNames THEN {"", "from-env"}
    ELSE IF n = "MCP_PORT" THEN {"", "7", "abc", "0"}
    ELSE IF n \in NumEnvNames THEN {"", "7", "abc"}
    ELSE IF n = "ENABLE_CORS" THEN {"", "no", "ON"}
    ELSE IF n = "DEBUG" THEN {"", "TRUE", "0"}
    ELSE IF n \in {"HTTP_PROXY", "HTTPS_PROXY", "ALL_PROXY"} THEN {"", "http://" \o n \o ":8080"}
    ELSE IF n \in {"http_proxy", "https_proxy", "all_proxy"} THEN {"", "http://" \o n \o ":3128"}
    ELSE {"", "localhost"}

EnvNameSeq ==
    <<"PERPLEXITY_API_KEY", "PERPLEXITY_API_URL", "PERPLEXITY_MODEL",
      "PERPLEXITY_MODEL_PREFIX", "PERPLEXITY_SYSTEM_MESSAGE", "PERPLEXITY_TIMEOUT",
      "PERPLEXITY_MAX_RETRIES", "PERPLEXITY_RETRY_DELAY",
      "MCP_HOST", "MCP_PORT", "MCP_PATH", "LOG_LEVEL", "ENABLE_CORS", "MAX_REQUEST_SIZE",
      "DEBUG",
      "HTTP_PROXY", "http_proxy", "HTTPS_PROXY", "https_proxy",
      "ALL_PROXY", "all_proxy", "NO_PROXY", "no_proxy">>

\* an entry of the file: the path of a key and the value under it
Entry(path, val) == [path |-> path, val |-> val]

FileEntrySeq ==
    <<Entry(<<"perplexity", "api_key">>, S("from-file")),
      Entry(<<"perplexity", "api_url">>, S("from-file")),
      Entry(<<"perplexity", "model">>, S("sonar-reasoning")),
      Entry(<<"perplexity", "model_prefix">>, S("team-")),
      Entry(<<"perplexity", "system_message">>, S("from-file")),
      Entry(<<"perplexity", "timeout">>, Fl(5)),
      Entry(<<"perplexity", "timeout">>, S("abc")),
      Entry(<<"perplexity", "max_retries">>, I(1)),
      Entry(<<"perplexity", "max_retries">>, None),
      Entry(<<"perplexity", "retry_delay">>, Fl(2)),
      Entry(<<"perplexity", "foo">>, S("from-file")),
      Entry(<<"server", "host">>, S("from-file")),
      Entry(<<"server", "port">>, I(9000)),
      Entry(<<"server", "port">>, S("80")),
      Entry(<<"server", "path">>, S("from-file")),
      Entry(<<"server", "log_level">>, S("from-file")),
      Entry(<<"server", "enable_cors">>, B(FALSE)),
      Entry(<<"server", "max_request_size">>, I(0)),
      Entry(<<"server", "bar">>, I(1)),
      Entry(<<"debug">>, B(TRUE)),
      Entry(<<"config_version">>, S("2.0")),
      Entry(<<"perplexity">>, I(5)),
      Entry(<<"server">>, L(<<>>))>>

\* one key is not given twice, nor given under a section that is not an object
Compatible(a, b) ==
    /\ a.path # b.path
    /\ ~(Len(a.path) = 1 /\ Len(b.path) = 2 /\ b.path[1] = a.path[1])
    /\ ~(Len(b.path) = 1 /\ Len(a.path) = 2 /\ a.path[1] = b.path[1])

\* the JSON object holding the entries E
JsonOf(E) ==
    LET top == {e.path[1] : e \in E}
        sub(k) == {e \in E : Len(e.path) = 2 /\ e.path[1] = k}
    IN  D([k \in top |->
            IF \E e \in E : e.path = <<k>> THEN (CHOOSE e \in E : e.path = <<k>>).val
            ELSE D([j \in {e.path[2] : e \in sub(k)} |->
                        (CHOOSE e \in sub(k) : e.path[2] = j).val])])

\* files that are not a JSON object of entries; each counts as one setting
OddFiles ==
    {FileUnreadable, FileBadUtf8, FileNotJson,
     FileJson(I(5)), FileJson(None), FileJson(S("abc")), FileJson(S("debug")),
     FileJson(L(<<>>)), FileJson(L(<<S("server")>>))}

RECURSIVE EnvsFrom(_, _)
\* the environments setting k of the variables EnvNameSeq[from..]
EnvsFrom(k, from) ==
    IF k = 0 THEN {EmptyMap}
    ELSE UNION {UNION {{(EnvNameSeq[i] :> x) @@ e : x \in EnvValues(EnvNameSeq[i])} :
                        e \in EnvsFrom(k - 1, i + 1)} :
                    i \in from..Len(EnvNameSeq)}

\* the environments with k variables set
Envs(k) == EnvsFrom(k, 1)

RECURSIVE EntrySetsFrom(_, _)
\* the sets of k compatible entries among FileEntrySeq[from..]
EntrySetsFrom(k, from) ==
    IF k = 0 THEN {{}}
    ELSE UNION {{X \cup {FileEntrySeq[i]} :
                    X \in {Y \in EntrySetsFrom(k - 1, i + 1) :
                             \A e \in Y : Compatible(e, FileEntrySeq[i])}} :
                    i \in from..Len(FileEntrySeq)}

\* the files of k settings
Files(k) ==
    IF k = 0 THEN {FileMissing}
    ELSE {FileJson(JsonOf(E)) : E \in EntrySetsFrom(k, 1)}
         \cup (IF k = 1 THEN OddFiles ELSE {})

----------------------------------------------------------------------------
(* ProxySettings methods *)

\* the dict get_proxy_config returns: a function from "http://", "https://"
get_proxy_config(p) ==
    LET http == IF Truthy(p.http_proxy) THEN ("http://" :> p.http_proxy)
                ELSE IF Truthy(p.all_proxy) THEN ("http://" :> p.all_proxy)
                ELSE EmptyMap
        https == IF Truthy(p.https_proxy) THEN ("https://" :> p.https_proxy)
                 ELSE IF Truthy(p.all_proxy) THEN ("https://" :> p.all_proxy)
                 ELSE EmptyMap
    IN  https @@ http

\* mutant: the HTTP proxy is preferred to the HTTPS proxy
get_httpx_proxy_http_first(p) ==
    LET proxies == get_proxy_config(p)
    IN  IF DOMAIN proxies = {} THEN None
        ELSE IF "http://" \in DOMAIN proxies THEN proxies["http://"]
        ELSE IF "https://" \in DOMAIN proxies THEN proxies["https://"]
        ELSE None

get_httpx_proxy(p) ==
    LET proxies == get_proxy_config(p)
    IN  IF DOMAIN proxies = {} THEN None
        ELSE IF "https://" \in DOMAIN proxies THEN proxies["https://"]
        ELSE IF "http://" \in DOMAIN proxies THEN proxies["http://"]
        ELSE None

SchemeChars == LowerChars \o UpperChars \o Digits \o "+-."

IsCharOf(c, chars) == \E i \in 1..Len(chars) : CharAt(chars, i) = c

\* the index of the first character of s among chars, from position from; 0 if none
FindAny(s, chars, from) ==
    IF \E i \in from..Len(s) : IsCharOf(CharAt(s, i), chars)
    THEN CHOOSE i \in from..Len(s) :
            /\ IsCharOf(CharAt(s, i), chars)
            /\ \A j \in from..(i - 1) : ~IsCharOf(CharAt(s, j), chars)
    ELSE 0

\* urlparse(url): the scheme and the netloc
urlparse(url) ==
    LET i == FindAny(url, ":", 1)
        hasScheme ==
            /\ i > 1
            /\ IsCharOf(CharAt(url, 1), LowerChars \o UpperChars)
            /\ \A j \in 1..(i - 1) : IsCharOf(CharAt(url, j), SchemeChars)
        scheme == IF hasScheme THEN Lower(Slice(url, 1, i - 1)) ELSE ""
        rest == IF hasScheme THEN Slice(url, i + 1, Len(url)) ELSE url
        delim == FindAny(rest, "/?#", 3)
        netloc == IF Slice(rest, 1, 2) = "//"
                  THEN Slice(rest, 3, IF delim = 0 THEN Len(rest) ELSE delim - 1)
                  ELSE ""
    IN  [scheme |-> scheme, netloc |-> netloc]

validate_proxy_url(proxy_url) ==
    LET parsed == urlparse(proxy_url)
    IN  parsed.scheme # "" /\ parsed.netloc # ""


----------------------------------------------------------------------------
(* server.py: the search tool *)

\* The literals of server.py that are not ASCII are written in English here.
NO_RESULTS == "No search results found"
CITATIONS_HEADER == "\n\nCitations:\n"
MSG_NO_API_KEY == "Set the Perplexity API key in the config file or PERPLEXITY_API_KEY"
MSG_NO_CHOICES == "Invalid Perplexity API response: no choices field"
MSG_TIMEOUT == "Perplexity API request timed out"
MSG_PROXY == "Proxy connection error"

\* an argument left to its default
Omitted == [None EXCEPT !.t = "omitted"]

\* the body of a response: text that is not JSON, or JSON text held as its value
TextBody(x) == [json |-> FALSE, text |-> x, val |-> None]
JsonBody(x) == [json |-> TRUE, text |-> "", val |-> x]

\* what the transport gives to client.post: a response, or an exception (exc # "")
Response(status, body) == [exc |-> "", status |-> status, body |-> body]
TransportError(name) == [exc |-> name, status |-> 0, body |-> TextBody("")]

NoOutcome == [kind |-> "none", exc |-> "", msg |-> "", status |-> 0, body |-> TextBody(""), text |-> ""]
Return(text) == [NoOutcome EXCEPT !.kind = "return", !.text = text]
RaiseExc(name, msg) == [NoOutcome EXCEPT !.kind = "raise", !.exc = name, !.msg = msg]
RaiseStatus(status, body) ==
    [NoOutcome EXCEPT !.kind = "raise", !.exc = "HTTPStatusError", !.status = status, !.body = body]

\* entries of the log
Ev(ctx, level, msg) ==
    IF ctx THEN <<[kind |-> "event", level |-> level, msg |-> msg]>> ELSE <<>>
Mark(kind) == <<[kind |-> kind, level |-> "", msg |-> ""]>>
Ended(o) == <<[kind |-> o.kind, level |-> "", msg |-> o.exc]>>

NoClient ==
    [state |-> "none", timeout |-> None, proxy |-> None, follow_redirects |-> FALSE,
     printed |-> ""]
NoRequest == [sent |-> FALSE, url |-> None, authorization |-> "", model |-> "", system |-> "", user |-> ""]
NoReq == [keyword |-> "", model |-> None, system_message |-> None, ctx |-> FALSE]
NoUsed == [model |-> "", system_message |-> ""]

\* mutant: the proxy URL is handed to the client without being validated
create_http_client_unvalidated(cfg) ==
    LET proxy_url == get_httpx_proxy(cfg.proxy)
    IN  [state |-> "open",
         timeout |-> cfg.perplexity.timeout,
         follow_redirects |-> TRUE,
         proxy |-> IF Truthy(proxy_url) THEN proxy_url ELSE None,
         printed |-> IF Truthy(proxy_url) THEN "using_proxy" ELSE "direct_no_proxy"]

\* create_http_client(): the client carries the proxy when it is non-empty and
\* valid; printed is what lines 68-78 print: the proxy used, the warning of an
\* invalid proxy URL, or the direct connection
create_http_client(cfg) ==
    LET proxy_url == get_httpx_proxy(cfg.proxy)
        valid == Truthy(proxy_url) /\ validate_proxy_url(proxy_url.s)
    IN  [state |-> "open",
         timeout |-> cfg.perplexity.timeout,
         follow_redirects |-> TRUE,
         proxy |-> IF valid THEN proxy_url ELSE None,
         printed |-> IF valid THEN "using_proxy"
                     ELSE IF Truthy(proxy_url) THEN "warning_invalid_proxy"
                     ELSE "direct_no_proxy"]

\* mutant: the prefix is prepended whether or not the model starts with it
apply_prefix_always(prefix, m) == IF Truthy(prefix) THEN prefix.s \o m ELSE m

\* lines 126-127: the model prefix
apply_prefix(prefix, m) ==
    IF Truthy(prefix) /\ ~StartsWith(m, prefix.s) THEN prefix.s \o m ELSE m

\* lines 124-128
used_model(cfg, model) == apply_prefix(cfg.perplexity.model_prefix, PyOr(model, cfg.perplexity.model).s)

used_system_message(cfg, system_message) == PyOr(system_message, cfg.perplexity.system_message).s

\* "key in x": "yes", "no" or "TypeError"
PyIn(key, x) ==
    CASE x.t = "dict" -> IF key \in DOMAIN x.f THEN "yes" ELSE "no"
      [] x.t = "list" -> IF \E i \in 1..Len(x.q) : x.q[i] = S(key) THEN "yes" ELSE "no"
      [] x.t = "str" -> IF Contains(x.s, key) THEN "yes" ELSE "no"
      [] OTHER -> "TypeError"

RECURSIVE IntToStr(_)
IntToStr(n) ==
    IF n < 10 THEN CharAt(Digits, n + 1)
    ELSE IntToStr(n \div 10) \o CharAt(Digits, (n % 10) + 1)

RECURSIVE Join_no_separator(_, _)
\* mutant: the parts are joined with nothing between them
Join_no_separator(sep, parts) ==
    IF Len(parts) = 0 THEN ""
    ELSE parts[1] \o Join_no_separator(sep, Tail(parts))

RECURSIVE Join(_, _)
\* sep.join(parts)
Join(sep, parts) ==
    IF Len(parts) = 0 THEN ""
    ELSE IF Len(parts) = 1 THEN parts[1]
    ELSE parts[1] \o sep \o Join(sep, Tail(parts))

\* lines 198-200 for one choice: "skip", "take" or the exception raised
ChoiceContent(choice) ==
    LET hasMessage == PyIn("message", choice)
    IN  IF hasMessage = "TypeError" THEN "TypeError"
        ELSE IF hasMessage = "no" THEN "skip"
        ELSE IF choice.t # "dict" THEN "TypeError"
        ELSE LET hasContent == PyIn("content", choice.f["message"])
             IN  IF hasContent = "TypeError" THEN "TypeError"
                 ELSE IF hasContent = "no" THEN "skip"
                 ELSE IF choice.f["message"].t # "dict" THEN "TypeError"
                 ELSE "take"

RECURSIVE ContentParts(_)
\* lines 197-200: the contents of the choices that have one, in order
ContentParts(choices) ==
    IF Len(choices) = 0 THEN <<>>
    ELSE (IF ChoiceContent(choices[1]) = "take"
          THEN <<choices[1].f["message"].f["content"]>> ELSE <<>>)
         \o ContentParts(Tail(choices))

RECURSIVE CitationLines(_, _)
\* lines 213-214
CitationLines(citations, index) ==
    IF Len(citations) = 0 THEN ""
    ELSE "[" \o IntToStr(index) \o "] " \o citations[1].s \o "\n"
         \o CitationLines(Tail(citations), index + 1)

\* lines 182-221: from the parsed payload to the end of the call; the entries
\* logged and the outcome. A raise is caught by "except Exception" (line 245),
\* which reports it on the sink and raises it again.
ProcessData(ctx, data) ==
    LET unexpected(name, msg, before) ==
            [log |-> before \o Ev(ctx, "error", "unexpected"), outcome |-> RaiseExc(name, msg)]
        hasChoices == PyIn("choices", data)
        choices == data.f["choices"]
        citations == IF "citations" \in DOMAIN data.f THEN data.f["citations"] ELSE L(<<>>)
        parts == ContentParts(choices.q)
        content == Join(" ", [i \in 1..Len(parts) |-> parts[i].s])
        found == IF Truthy(citations) THEN Ev(ctx, "info", "citations") ELSE <<>>
    IN  IF hasChoices = "TypeError" THEN unexpected("TypeError", "", <<>>)
        ELSE IF hasChoices = "no"
        THEN unexpected("ValueError", MSG_NO_CHOICES, Ev(ctx, "error", "no_choices"))
        ELSE IF data.t # "dict" THEN unexpected("AttributeError", "", <<>>)
        ELSE IF ~Truthy(choices)
        THEN [log |-> Ev(ctx, "warning", "empty_choices"), outcome |-> Return(NO_RESULTS)]
        ELSE IF choices.t # "list" THEN unexpected("TypeError", "", <<>>)
        ELSE IF \E i \in 1..Len(choices.q) : ChoiceContent(choices.q[i]) = "TypeError"
        THEN unexpected("TypeError", "", <<>>)
        ELSE IF \E i \in 1..Len(parts) : parts[i].t # "str"
        THEN unexpected("TypeError", "", <<>>)
        ELSE IF Truthy(citations) /\ citations.t # "list" THEN unexpected("TypeError", "", found)
        ELSE [log |-> found \o Ev(ctx, "info", "done"),
              outcome |-> Return(IF Truthy(citations)
                                 THEN content \o CITATIONS_HEADER \o CitationLines(citations.q, 1)
                                 ELSE content)]

\* lines 169-180 and what follows: a response has arrived
\* mutant: the status error is raised under "if ctx" only
HandleResponse_raise_under_ctx(ctx, r) ==
    IF r.status # 200 /\ ctx
    THEN [log |-> Ev(ctx, "error", "status") \o Mark("close") \o Ev(ctx, "error", "http_error"),
          outcome |-> RaiseStatus(r.status, r.body)]
    ELSE IF ~r.body.json
    THEN [log |-> Mark("close") \o Ev(ctx, "error", "unexpected"),
          outcome |-> RaiseExc("JSONDecodeError", "")]
    ELSE LET rest == ProcessData(ctx, r.body.val)
         IN  [log |-> Ev(ctx, "debug", "status") \o Mark("close") \o rest.log,
              outcome |-> rest.outcome]

HandleResponse(ctx, r) ==
    IF r.status # 200
    THEN [log |-> Ev(ctx, "error", "status") \o Mark("close") \o Ev(ctx, "error", "http_error"),
          outcome |-> RaiseStatus(r.status, r.body)]
    ELSE IF ~r.body.json
    THEN [log |-> Mark("close") \o Ev(ctx, "error", "unexpected"),
          outcome |-> RaiseExc("JSONDecodeError", "")]
    ELSE LET rest == ProcessData(ctx, r.body.val)
         IN  [log |-> Ev(ctx, "debug", "status") \o Mark("close") \o rest.log,
              outcome |-> rest.outcome]

\* mutant: a timeout is reported on the sink after it is raised, that is, not at all
HandleException_silent_timeout(ctx, cfg, exc) ==
    CASE exc = "TimeoutException" ->
            [log |-> Mark("close"), outcome |-> RaiseExc("TimeoutError", MSG_TIMEOUT)]
      [] exc = "ProxyError" ->
            [log |-> Mark("close") \o Ev(ctx, "error", "proxy") \o Ev(ctx, "error", "check_proxy"),
             outcome |-> RaiseExc("ConnectionError", MSG_PROXY)]
      [] OTHER ->
            [log |-> Mark("close") \o Ev(ctx, "error", "unexpected"),
             outcome |-> RaiseExc(exc, "")]

\* mutant: no handler for httpx.ProxyError, which falls to "except Exception"
HandleException_no_proxy_handler(ctx, cfg, exc) ==
    CASE exc = "TimeoutException" ->
            [log |-> Mark("close") \o Ev(ctx, "error", "timeout")
                     \o (IF DOMAIN get_proxy_config(cfg.proxy) # {}
                         THEN Ev(ctx, "error", "check_proxy") ELSE <<>>),
             outcome |-> RaiseExc("TimeoutError", MSG_TIMEOUT)]
      [] OTHER ->
            [log |-> Mark("close") \o Ev(ctx, "error", "unexpected"),
             outcome |-> RaiseExc(exc, "")]

\* lines 223-249: client.post raised exc; leaving "async with" closes the client
HandleException(ctx, cfg, exc) ==
    CASE exc = "TimeoutException" ->
            [log |-> Mark("close") \o Ev(ctx, "error", "timeout")
                     \o (IF DOMAIN get_proxy_config(cfg.proxy) # {}
                         THEN Ev(ctx, "error", "check_proxy") ELSE <<>>),
             outcome |-> RaiseExc("TimeoutError", MSG_TIMEOUT)]
      [] exc = "ProxyError" ->
            [log |-> Mark("close") \o Ev(ctx, "error", "proxy") \o Ev(ctx, "error", "check_proxy"),
             outcome |-> RaiseExc("ConnectionError", MSG_PROXY)]
      [] OTHER ->
            [log |-> Mark("close") \o Ev(ctx, "error", "unexpected"),
             outcome |-> RaiseExc(exc, "")]


----------------------------------------------------------------------------
(* The parts of the state a specification leaves alone *)

NotSaved == [called |-> FALSE, exc |-> "", of |-> 0, io |-> "", file |-> [kind |-> "", val |-> None]]

\* mutant: load_config updates the AppConfig object it returned before and
\* returns it again
keep_in_place(objs, r, f) ==
    Append([i \in 1..Len(objs) |->
               IF r.exc = "" /\ objs[i].exc = "" THEN [objs[i] EXCEPT !.config = r.config]
               ELSE objs[i]],
           [exc |-> r.exc, config |-> r.config, from |-> f])

\* config.py lines 218-222 and 143-147: each load_config call that returns builds
\* a new AppConfig; the objects returned before stay as they are
keep(objs, r, f) == Append(objs, [exc |-> r.exc, config |-> r.config, from |-> f])

NotCalled == [called |-> FALSE, exc |-> "", config |-> NoConfig, warnings |-> {}]

Called(r) == [called |-> TRUE, exc |-> r.exc, config |-> r.config, warnings |-> r.warnings]

NoResult == [op |-> "", map |-> EmptyMap, val |-> None, ok |-> FALSE]

CallIds == 1..MaxCalls

NoCall ==
    [pc |-> "idle", req |-> NoReq, used |-> NoUsed, client |-> 0, request |-> NoRequest,
     received |-> TransportError(""), log |-> <<>>, outcome |-> NoOutcome]

NoCalls == calls = [c \in CallIds |-> NoCall] /\ clients = <<>>

ServerIdle == server = "importing" /\ config = NoConfig /\ NoCalls

CallIdle ==
    /\ pc = "idle"
    /\ req = NoReq
    /\ used = NoUsed
    /\ client = NoClient
    /\ request = NoRequest
    /\ received = TransportError("")
    /\ log = <<>>
    /\ outcome = NoOutcome

ProxyIdle == psettings = ProxySettings /\ presult = NoResult

----------------------------------------------------------------------------
(* The configuration manager as a state machine *)

ConfigInit ==
    /\ \E i \in 0..MaxSettings : \E j \in 0..(MaxSettings - i) :
          /\ env \in Envs(i)
          /\ file \in Files(j)
    /\ cm_config = NoConfig
    /\ result = NotCalled
    /\ loaded = <<>>
    /\ saved = NotSaved
    /\ ServerIdle
    /\ CallIdle
    /\ ProxyIdle

\* config_manager.load_config()
LoadConfig ==
    /\ Len(loaded) < MaxLoads
    /\ LET r == load_config(env, file)
       IN  /\ result' = Called(r)
           /\ cm_config' = IF r.exc = "" THEN r.config ELSE cm_config
           /\ loaded' = keep(loaded, r, file)
    /\ UNCHANGED <<env, file, saved, srvvars, callvars, proxyvars>>

ConfigNext == LoadConfig

SpecConfig == ConfigInit /\ [][ConfigNext]_vars

----------------------------------------------------------------------------
(* save_config, and the configuration manager saving and loading again *)

\* lines 292-297: config_dict; asdict gives the fields of a settings object
config_dict(cfg) ==
    D("perplexity" :> D(cfg.perplexity)
      @@ "server" :> D(cfg.server)
      @@ "debug" :> cfg.debug
      @@ "config_version" :> cfg.config_version)

\* what the file system does to a save: "ok", or the failure of mkdir (line 300),
\* of open (line 303) or of the write (line 304)
SaveIo(f) ==
    {"ok", "open_fails", "write_fails"} \cup (IF f.kind = "nodir" THEN {"mkdir_fails"} ELSE {})

\* save_config(config) with self._config = current and the file f: the exception
\* raised, if any, and the file left on disk. A failed write leaves a file cut
\* short; IOError is OSError.
save_config(arg, current, f, io) ==
    LET cfg == IF arg = NoConfig THEN current ELSE arg
        made == IF f.kind = "nodir" THEN FileMissing ELSE f
    IN  IF cfg = NoConfig THEN [exc |-> "ValueError", file |-> f]
        ELSE IF io = "mkdir_fails" THEN [exc |-> "OSError", file |-> f]
        ELSE IF io = "open_fails" THEN [exc |-> "OSError", file |-> made]
        ELSE IF io = "write_fails" THEN [exc |-> "OSError", file |-> FileNotJson]
        ELSE [exc |-> "", file |-> FileJson(config_dict(cfg.v))]

\* the place in loaded of the object self._config refers to; 0 if there is none
Current(objs) ==
    IF \E i \in 1..Len(objs) : objs[i].exc = ""
    THEN CHOOSE i \in 1..Len(objs) :
            /\ objs[i].exc = ""
            /\ \A j \in (i + 1)..Len(objs) : objs[j].exc # ""
    ELSE 0

\* the files a run starts with
SaveFiles ==
    {FileMissing, FileNoDir, FileNotJson, FileJson(L(<<>>)),
     FileJson(JsonOf({Entry(<<"perplexity", "api_key">>, S("from-file"))})),
     FileJson(JsonOf({Entry(<<"perplexity", "timeout">>, Fl(5)),
                      Entry(<<"server", "port">>, I(9000))})),
     FileJson(JsonOf({Entry(<<"server", "enable_cors">>, B(FALSE)),
                      Entry(<<"debug">>, B(TRUE))})),
     FileJson(JsonOf({Entry(<<"perplexity", "foo">>, S("from-file"))}))}

\* what the file is edited to between calls
EditFiles ==
    {FileMissing,
     FileJson(JsonOf({Entry(<<"perplexity", "model">>, S("edited"))})),
     FileJson(JsonOf({Entry(<<"server", "port">>, I(9090))}))}

SaveInit ==
    /\ env = EmptyMap
    /\ file \in SaveFiles
    /\ cm_config = NoConfig
    /\ result = NotCalled
    /\ loaded = <<>>
    /\ saved = NotSaved
    /\ ServerIdle
    /\ CallIdle
    /\ ProxyIdle

\* config_manager.save_config(): of self._config (which = 0) or of an object that
\* load_config returned (loaded[which])
SaveConfig(which, io) ==
    /\ which # 0 => loaded[which].exc = ""
    /\ LET arg == IF which = 0 THEN NoConfig ELSE loaded[which].config
           r == save_config(arg, cm_config, file, io)
       IN  /\ file' = r.file
           /\ saved' = [called |-> TRUE, exc |-> r.exc,
                        of |-> IF which = 0 THEN Current(loaded) ELSE which,
                        io |-> io,
                        file |-> r.file]
    /\ UNCHANGED <<env, cm_config, result, loaded, srvvars, callvars, proxyvars>>

\* the file is edited by hand
EditFile(f) ==
    /\ file # f
    /\ file' = f
    /\ UNCHANGED <<env, cm_config, result, loaded, saved, srvvars, callvars, proxyvars>>

SaveNext ==
    \/ LoadConfig
    \/ \E which \in 0..Len(loaded), io \in SaveIo(file) : SaveConfig(which, io)
    \/ \E f \in EditFiles : EditFile(f)

SpecSave == SaveInit /\ [][SaveNext]_vars



----------------------------------------------------------------------------
(* The server as a state machine: import, then search calls one after another *)

\* what the server is started with
StartEnvs ==
    {a @@ b @@ c :
        a \in {EmptyMap, "PERPLEXITY_API_KEY" :> "from-env"},
        b \in {EmptyMap, "PERPLEXITY_MODEL_PREFIX" :> "org-"},
        c \in {EmptyMap, "HTTPS_PROXY" :> "http://proxy.example.com:8080"}}

StartFiles ==
    {FileMissing,
     FileJson(JsonOf({Entry(<<"server", "max_request_size">>, I(0))})),
     FileJson(JsonOf({Entry(<<"server", "port">>, S("80"))}))}

\* the arguments of a call
ModelArgs == {Omitted, S(""), S("sonar-pro"), S("org-sonar")}
SystemArgs == {Omitted, S("Be brief.")}

Seqs(X, n) == UNION {[1..k -> X] : k \in 0..n}

Choices ==
    {D("message" :> D("content" :> S("A"))),
     D("message" :> D("content" :> S("B"))),
     D("message" :> D(EmptyMap))}

Citations == {S("http://x"), S("http://y")}

\* the payloads of the documented shape: choices, and citations or none
Payloads ==
    {D("choices" :> L(cs)) : cs \in Seqs(Choices, MaxChoices)}
    \cup {D("choices" :> L(cs) @@ "citations" :> L(ct)) :
            cs \in Seqs(Choices, MaxChoices), ct \in Seqs(Citations, MaxCitations)}

\* other JSON payloads
OddPayloads ==
    {D(EmptyMap), D("error" :> S("bad request")), None, I(5), L(<<>>), L(<<S("choices")>>),
     D("choices" :> None), D("choices" :> I(5)),
     D("choices" :> L(<<D(EmptyMap)>>)),
     D("choices" :> L(<<I(5)>>)),
     D("choices" :> L(<<D("message" :> D("content" :> None))>>))}

TransportResults ==
    {TransportError(x) : x \in {"TimeoutException", "ProxyError", "ConnectError", "RuntimeError"}}
    \cup {Response(st, b) : st \in {401, 500}, b \in {TextBody("unauthorized"), JsonBody(D(EmptyMap))}}
    \cup {Response(200, TextBody("<html>"))}
    \cup {Response(200, JsonBody(x)) : x \in Payloads \cup OddPayloads}

SearchInit ==
    /\ env \in StartEnvs
    /\ file \in StartFiles
    /\ cm_config = NoConfig
    /\ result = NotCalled
    /\ loaded = <<>>
    /\ saved = NotSaved
    /\ ServerIdle
    /\ CallIdle
    /\ ProxyIdle

\* server.py line 38: config = get_config(), which loads the configuration; an
\* exception ends the import
Startup ==
    /\ server = "importing"
    /\ LET r == load_config(env, file)
       IN  /\ result' = Called(r)
           /\ cm_config' = IF r.exc = "" THEN r.config ELSE cm_config
           /\ config' = IF r.exc = "" THEN r.config ELSE config
           /\ server' = IF r.exc = "" THEN "ready" ELSE "failed"
           /\ loaded' = keep(loaded, r, file)
    /\ UNCHANGED <<env, file, saved, calls, clients, callvars, proxyvars>>

\* mutant: the key is taken to be set
has_api_key_always(cfg) == TRUE

\* line 117
has_api_key(cfg) == Truthy(cfg.perplexity.api_key)

\* search(keyword, model, system_message, ctx), lines 113-154: up to the request
\* being ready, or to the raise for the missing key
Search_Begin(keyword, model, system_message, ctx) ==
    /\ server = "ready"
    /\ pc = "idle"
    /\ LET cfg == config.v
           m == IF model = Omitted THEN cfg.perplexity.model ELSE model
           sm == IF system_message = Omitted THEN cfg.perplexity.system_message
                 ELSE system_message
           started == Ev(ctx, "info", "start")
           missing == RaiseExc("ValueError", MSG_NO_API_KEY)
       IN  /\ req' = [keyword |-> keyword, model |-> m, system_message |-> sm, ctx |-> ctx]
           /\ IF ~has_api_key(cfg)
              THEN /\ log' = started \o Ev(ctx, "error", "no_api_key") \o Ended(missing)
                   /\ outcome' = missing
                   /\ used' = NoUsed
                   /\ pc' = "done"
              ELSE /\ log' = started \o Ev(ctx, "info", "model") \o Ev(ctx, "debug", "system")
                   /\ outcome' = NoOutcome
                   /\ used' = [model |-> used_model(cfg, m),
                               system_message |-> used_system_message(cfg, sm)]
                   /\ pc' = "prepared"
    /\ client' = NoClient
    /\ request' = NoRequest
    /\ received' = TransportError("")
    /\ UNCHANGED <<cfgvars, srvvars, proxyvars>>

\* lines 156-167: the client is created and the POST issued
Search_Send ==
    /\ pc = "prepared"
    /\ log' = log \o Ev(req.ctx, "info", "calling") \o Mark("client") \o Mark("post")
    /\ client' = create_http_client(config.v)
    /\ request' = [sent |-> TRUE,
                   url |-> config.v.perplexity.api_url,
                   authorization |-> "Bearer " \o config.v.perplexity.api_key.s,
                   model |-> used.model,
                   system |-> used.system_message,
                   user |-> req.keyword]
    /\ pc' = "awaiting"
    /\ UNCHANGED <<cfgvars, srvvars, proxyvars, req, used, received, outcome>>

\* the POST ends: with a response (lines 169-221) or an exception (lines 223-249)
Search_Receive(t) ==
    /\ pc = "awaiting"
    /\ LET h == IF t.exc # "" THEN HandleException(req.ctx, config.v, t.exc)
                ELSE HandleResponse(req.ctx, t)
       IN  /\ log' = log \o h.log \o Ended(h.outcome)
           /\ outcome' = h.outcome
    /\ received' = t
    /\ client' = [client EXCEPT !.state = "closed"]
    /\ pc' = "done"
    /\ UNCHANGED <<cfgvars, srvvars, proxyvars, req, used, request>>

\* the outcome is handed to the caller; the next call may start
Search_Finish ==
    /\ pc = "done"
    /\ pc' = "idle"
    /\ req' = NoReq
    /\ used' = NoUsed
    /\ client' = NoClient
    /\ request' = NoRequest
    /\ received' = TransportError("")
    /\ log' = <<>>
    /\ outcome' = NoOutcome
    /\ UNCHANGED <<cfgvars, srvvars, proxyvars>>

SearchNext ==
    \/ Startup
    \/ \E m \in ModelArgs, sm \in SystemArgs, ctx \in BOOLEAN : Search_Begin("query", m, sm, ctx)
    \/ Search_Send
    \/ \E t \in TransportResults : Search_Receive(t)
    \/ Search_Finish

SpecSearch == SearchInit /\ [][SearchNext]_vars

----------------------------------------------------------------------------
(* Search calls side by side: the server runs each call as a task of one     *)
(* event loop; a call gives way at its awaits (the sink, the POST) and may   *)
(* be cancelled there                                                         *)

CallEnvs ==
    {EmptyMap,
     "PERPLEXITY_API_KEY" :> "from-env",
     "PERPLEXITY_API_KEY" :> "from-env" @@ "PERPLEXITY_MAX_RETRIES" :> "0",
     "PERPLEXITY_API_KEY" :> "from-env" @@ "PERPLEXITY_MAX_RETRIES" :> "-1"}

CallModelArgs == {Omitted, S("sonar-pro")}

CallResults ==
    {TransportError("TimeoutException"), TransportError("ProxyError"),
     Response(500, TextBody("unavailable")),
     Response(200, TextBody("<html>")),
     Response(200, JsonBody(D("choices" :> L(<<D("message" :> D("content" :> S("A")))>>)
                              @@ "citations" :> L(<<S("http://x")>>))))}

CallsInit ==
    /\ env \in CallEnvs
    /\ file = FileMissing
    /\ cm_config = NoConfig
    /\ result = NotCalled
    /\ loaded = <<>>
    /\ saved = NotSaved
    /\ ServerIdle
    /\ CallIdle
    /\ ProxyIdle

\* mutant: a client that is open is used again instead of a new one
acquire_client_shared(cls, cfg, c) ==
    IF \E i \in 1..Len(cls) : cls[i].state = "open"
    THEN [clients |-> cls, index |-> CHOOSE i \in 1..Len(cls) : cls[i].state = "open"]
    ELSE [clients |-> Append(cls, [owner |-> c, state |-> "open",
                                   proxy |-> create_http_client(cfg).proxy]),
          index |-> Len(cls) + 1]

\* lines 161-162: client = await create_http_client(); async with client
acquire_client(cls, cfg, c) ==
    [clients |-> Append(cls, [owner |-> c, state |-> "open",
                              proxy |-> create_http_client(cfg).proxy]),
     index |-> Len(cls) + 1]

\* leaving "async with client" closes the client
release_client(cls, i) == [cls EXCEPT ![i].state = "closed"]

\* mutant: the model used becomes the default of the calls to come
config_after_search_caching(cfg, u) ==
    [cfg EXCEPT !.v.perplexity.model = S(u.model)]

\* lines 113-249: search reads config and never assigns to it or to its fields
config_after_search(cfg, u) == cfg

\* call c starts: lines 113-154
Call_Begin(c, keyword, model, system_message, ctx) ==
    /\ server = "ready"
    /\ calls[c].pc = "idle"
    /\ LET cfg == config.v
           m == IF model = Omitted THEN cfg.perplexity.model ELSE model
           sm == IF system_message = Omitted THEN cfg.perplexity.system_message
                 ELSE system_message
           started == Ev(ctx, "info", "start")
           missing == RaiseExc("ValueError", MSG_NO_API_KEY)
           u == [model |-> used_model(cfg, m), system_message |-> used_system_message(cfg, sm)]
           r == [keyword |-> keyword, model |-> m, system_message |-> sm, ctx |-> ctx]
       IN  IF ~has_api_key(cfg)
           THEN /\ calls' = [calls EXCEPT ![c] =
                                [NoCall EXCEPT !.pc = "done", !.req = r,
                                    !.log = started \o Ev(ctx, "error", "no_api_key")
                                            \o Ended(missing),
                                    !.outcome = missing]]
                /\ config' = config
           ELSE /\ calls' = [calls EXCEPT ![c] =
                                [NoCall EXCEPT !.pc = "prepared", !.req = r, !.used = u,
                                    !.log = started \o Ev(ctx, "info", "model")
                                            \o Ev(ctx, "debug", "system")]]
                /\ config' = config_after_search(config, u)
    /\ UNCHANGED <<cfgvars, server, clients, callvars, proxyvars>>

\* call c creates its client and issues the POST: lines 156-167
Call_Send(c) ==
    /\ calls[c].pc = "prepared"
    /\ LET a == acquire_client(clients, config.v, c)
       IN  /\ clients' = a.clients
           /\ calls' = [calls EXCEPT ![c] =
                 [@ EXCEPT !.pc = "awaiting",
                           !.client = a.index,
                           !.log = @ \o Ev(calls[c].req.ctx, "info", "calling")
                                     \o Mark("client") \o Mark("post"),
                           !.request = [sent |-> TRUE,
                                        url |-> config.v.perplexity.api_url,
                                        authorization |->
                                            "Bearer " \o config.v.perplexity.api_key.s,
                                        model |-> calls[c].used.model,
                                        system |-> calls[c].used.system_message,
                                        user |-> calls[c].req.keyword]]]
    /\ UNCHANGED <<cfgvars, server, config, callvars, proxyvars>>

\* mutant: a POST that timed out is issued again while max_retries allows
Call_Receive_retrying(c, t) ==
    /\ calls[c].pc = "awaiting"
    /\ LET posts == Cardinality({i \in 1..Len(calls[c].log) : calls[c].log[i].kind = "post"})
           h == IF t.exc # "" THEN HandleException(calls[c].req.ctx, config.v, t.exc)
                ELSE HandleResponse(calls[c].req.ctx, t)
       IN  IF t.exc = "TimeoutException" /\ IsNumber(config.v.perplexity.max_retries)
              /\ posts <= NumVal(config.v.perplexity.max_retries)
           THEN /\ calls' = [calls EXCEPT ![c].log = @ \o Mark("post")]
                /\ clients' = clients
           ELSE /\ calls' = [calls EXCEPT ![c] =
                      [@ EXCEPT !.pc = "done", !.received = t, !.outcome = h.outcome,
                                !.log = @ \o h.log \o Ended(h.outcome)]]
                /\ clients' = release_client(clients, calls[c].client)
    /\ UNCHANGED <<cfgvars, server, config, callvars, proxyvars>>

\* the POST of call c ends, with a response (lines 169-221) or an exception
\* (lines 223-249); the client is closed on the way out of "async with"
Call_Receive(c, t) ==
    /\ calls[c].pc = "awaiting"
    /\ LET h == IF t.exc # "" THEN HandleException(calls[c].req.ctx, config.v, t.exc)
                ELSE HandleResponse(calls[c].req.ctx, t)
       IN  calls' = [calls EXCEPT ![c] =
                       [@ EXCEPT !.pc = "done", !.received = t, !.outcome = h.outcome,
                                 !.log = @ \o h.log \o Ended(h.outcome)]]
    /\ clients' = release_client(clients, calls[c].client)
    /\ UNCHANGED <<cfgvars, server, config, callvars, proxyvars>>

\* call c is cancelled where it waits: at the sink before the client exists (line
\* 158), or at the POST inside "async with" (line 163), which closes the client;
\* CancelledError is not an Exception and no handler of search catches it
Call_Cancel(c) ==
    /\ \/ calls[c].pc = "prepared" /\ calls[c].req.ctx
       \/ calls[c].pc = "awaiting"
    /\ LET cancelled == RaiseExc("CancelledError", "")
       IN  calls' = [calls EXCEPT ![c] =
                       [@ EXCEPT !.pc = "done", !.outcome = cancelled,
                                 !.log = @ \o (IF calls[c].client # 0 THEN Mark("close") ELSE <<>>)
                                           \o Ended(cancelled)]]
    /\ clients' = IF calls[c].client # 0 THEN release_client(clients, calls[c].client)
                  ELSE clients
    /\ UNCHANGED <<cfgvars, server, config, callvars, proxyvars>>

CallsNext ==
    \/ Startup
    \/ \E c \in CallIds, m \in CallModelArgs, ctx \in BOOLEAN :
          Call_Begin(c, "query", m, Omitted, ctx)
    \/ \E c \in CallIds : Call_Send(c)
    \/ \E c \in CallIds, t \in CallResults : Call_Receive(c, t)
    \/ \E c \in CallIds : Call_Cancel(c)

SpecCalls == CallsInit /\ [][CallsNext]_vars

----------------------------------------------------------------------------
(* ProxySettings as a state machine: a value, and its methods applied to it *)

ProxyValues ==
    [http_proxy : {S(""), S("http://h.example:3128")},
     https_proxy : {S(""), S("https://s.example:8443")},
     all_proxy : {S(""), S("socks5://a.example:1080"), S("not-a-url")},
     no_proxy : {S(""), S("localhost")}]

ProxyUrls == {"", "not-a-url", "https://proxy.example.com:8443", "http://", "proxy:8080",
              "//proxy.example.com", "HTTP://user:pw@proxy/path", "1http://proxy"}

ProxyInit ==
    /\ psettings \in ProxyValues
    /\ presult = NoResult
    /\ env = EmptyMap
    /\ file = FileMissing
    /\ cm_config = NoConfig
    /\ result = NotCalled
    /\ loaded = <<>>
    /\ saved = NotSaved
    /\ ServerIdle
    /\ CallIdle

GetProxyConfig ==
    /\ presult' = [NoResult EXCEPT !.op = "get_proxy_config", !.map = get_proxy_config(psettings)]
    /\ UNCHANGED <<cfgvars, srvvars, callvars, psettings>>

GetHttpxProxy ==
    /\ presult' = [NoResult EXCEPT !.op = "get_httpx_proxy", !.val = get_httpx_proxy(psettings)]
    /\ UNCHANGED <<cfgvars, srvvars, callvars, psettings>>

ValidateProxyUrl(url) ==
    /\ presult' = [NoResult EXCEPT !.op = "validate_proxy_url", !.val = S(url),
                                   !.ok = validate_proxy_url(url)]
    /\ UNCHANGED <<cfgvars, srvvars, callvars, psettings>>

ProxyNext ==
    \/ GetProxyConfig
    \/ GetHttpxProxy
    \/ \E url \in ProxyUrls \cup {psettings[k].s : k \in ProxyFields} : ValidateProxyUrl(url)

SpecProxy == ProxyInit /\ [][ProxyNext]_vars

----------------------------------------------------------------------------
(* search and create_http_client as functions of the module's config: the    *)
(* config is any AppConfig with a key, its proxy settings any ProxySettings  *)
(* (load_config leaves the proxy settings empty, see C4)                     *)

ClientInit ==
    /\ env = EmptyMap
    /\ file = FileMissing
    /\ cm_config = NoConfig
    /\ result = NotCalled
    /\ loaded = <<>>
    /\ saved = NotSaved
    /\ server = "ready"
    /\ \E p \in {x \in ProxyValues : x.no_proxy = S("")} :
          config = [t |-> "AppConfig",
                    v |-> AppConfig([PerplexitySettings EXCEPT !.api_key = S("key")],
                                    ServerSettings, p)]
    /\ NoCalls
    /\ CallIdle
    /\ ProxyIdle

ClientNext ==
    \/ \E m \in ModelArgs, sm \in SystemArgs, ctx \in BOOLEAN : Search_Begin("query", m, sm, ctx)
    \/ Search_Send
    \/ \E t \in TransportResults : Search_Receive(t)
    \/ Search_Finish

SpecClient == ClientInit /\ [][ClientNext]_vars

----------------------------------------------------------------------------
(* Precedence, stated independently of the merge *)

\* the environment variable that controls each field
EnvVarOf ==
    [perplexity |->
        [api_key |-> "PERPLEXITY_API_KEY", api_url |-> "PERPLEXITY_API_URL",
         model |-> "PERPLEXITY_MODEL", model_prefix |-> "PERPLEXITY_MODEL_PREFIX",
         system_message |-> "PERPLEXITY_SYSTEM_MESSAGE", timeout |-> "PERPLEXITY_TIMEOUT",
         max_retries |-> "PERPLEXITY_MAX_RETRIES", retry_delay |-> "PERPLEXITY_RETRY_DELAY"],
     server |->
        [host |-> "MCP_HOST", port |-> "MCP_PORT", path |-> "MCP_PATH",
         log_level |-> "LOG_LEVEL", enable_cors |-> "ENABLE_CORS",
         max_request_size |-> "MAX_REQUEST_SIZE"]]

DefaultOf == [perplexity |-> PerplexitySettings, server |-> ServerSettings]

SettingsPaths ==
    {<<"perplexity", k>> : k \in PerplexityFields} \cup {<<"server", k>> : k \in ServerFields}

\* the type the default of a field has
KindOf(sec, k) == DefaultOf[sec][k].t

\* the variable is set to a non-empty value that parses as the field's type
EnvSets(sec, k) ==
    LET n == EnvVarOf[sec][k]
    IN  /\ n \in DOMAIN env
        /\ env[n] # ""
        /\ KindOf(sec, k) \in {"int", "float"} => IsIntLiteral(env[n])

EnvValueOf(sec, k) ==
    LET raw == env[EnvVarOf[sec][k]]
    IN  CASE KindOf(sec, k) = "str" -> S(raw)
          [] KindOf(sec, k) = "int" -> I(IntLiteralVal(raw))
          [] KindOf(sec, k) = "float" -> Fl(IntLiteralVal(raw))
          [] KindOf(sec, k) = "bool" -> B(Lower(raw) \in {"true", "1", "yes", "on"})

\* the file is a JSON object whose section sec is an object holding key k
FileSets(sec, k) ==
    /\ file.kind = "json"
    /\ file.val.t = "dict"
    /\ sec \in DOMAIN file.val.f
    /\ file.val.f[sec].t = "dict"
    /\ k \in DOMAIN file.val.f[sec].f

FileOrDefault(sec, k) ==
    IF FileSets(sec, k) THEN file.val.f[sec].f[k] ELSE DefaultOf[sec][k]

Returned == result.called /\ result.exc = ""

\* the returned settings follow the precedence, field by field, and hold no key
\* but their fields
PrecedenceHolds ==
    /\ DOMAIN result.config.v.perplexity = PerplexityFields
    /\ DOMAIN result.config.v.server = ServerFields
    /\ \A p \in SettingsPaths :
          result.config.v[p[1]][p[2]] =
              IF EnvSets(p[1], p[2]) THEN EnvValueOf(p[1], p[2])
              ELSE FileOrDefault(p[1], p[2])

\* the file is a JSON object
FileIsObject == file.kind = "json" /\ file.val.t = "dict"

\* C1: for every environment and every file that is a JSON object, load_config
\* returns, and every field of the perplexity and server settings holds the
\* environment value if its variable is set to a non-empty parseable value, else
\* the file's value if the file sets the field, else the default; field by field;
\* keys of the file that are not fields are ignored
C1_Precedence ==
    (result.called /\ FileIsObject) => (Returned /\ PrecedenceHolds)

\* what holds of the code: the precedence in every load that returns
PrecedenceWhenReturned == Returned => PrecedenceHolds

\* C2: load_config never raises, whatever the file holds
C2_LoadNeverRaises == result.called => result.exc = ""

\* the debug flag the file and the defaults give
FileDebug ==
    IF file.kind = "json" /\ file.val.t = "dict" /\ "debug" \in DOMAIN file.val.f
    THEN file.val.f["debug"] ELSE B(FALSE)

Unset(n) == n \notin DOMAIN env \/ env[n] = ""

\* C3: a variable that is absent or empty does not override: the field it controls
\* holds what the file and the defaults give (DEBUG and ENABLE_CORS included)
C3_UnsetDoesNotOverride ==
    Returned =>
        /\ \A p \in SettingsPaths :
              Unset(EnvVarOf[p[1]][p[2]]) =>
                  result.config.v[p[1]][p[2]] = FileOrDefault(p[1], p[2])
        /\ Unset("DEBUG") => result.config.v.debug = FileDebug

\* the same without DEBUG: what the code does guarantee
C3_UnsetDoesNotOverrideButDebug ==
    Returned =>
        \A p \in SettingsPaths :
            Unset(EnvVarOf[p[1]][p[2]]) =>
                result.config.v[p[1]][p[2]] = FileOrDefault(p[1], p[2])



----------------------------------------------------------------------------
(* The outcomes of a search call, in the terms of the design *)

Kind(o) ==
    CASE o.kind = "none" -> "none"
      [] o.kind = "return" /\ o.text = NO_RESULTS -> "EmptyResult"
      [] o.kind = "return" /\ o.text # NO_RESULTS -> "Success"
      [] o.kind = "raise" /\ o.exc = "ValueError" /\ o.msg = MSG_NO_API_KEY -> "MissingCredential"
      [] o.kind = "raise" /\ o.exc = "ValueError" /\ o.msg = MSG_NO_CHOICES -> "MalformedResponse"
      [] o.kind = "raise" /\ o.exc = "HTTPStatusError" -> "UpstreamStatusError"
      [] o.kind = "raise" /\ o.exc = "TimeoutError" -> "Timeout"
      [] o.kind = "raise" /\ o.exc = "ConnectionError" -> "ProxyFailure"
      [] OTHER -> "UnexpectedError"

\* the proxy settings the environment asks for
EnvProxy(upper, lower) ==
    IF upper \in DOMAIN env /\ env[upper] # "" THEN env[upper]
    ELSE IF lower \in DOMAIN env THEN env[lower]
    ELSE ""

EnvProxySettings ==
    [http_proxy |-> S(EnvProxy("HTTP_PROXY", "http_proxy")),
     https_proxy |-> S(EnvProxy("HTTPS_PROXY", "https_proxy")),
     all_proxy |-> S(EnvProxy("ALL_PROXY", "all_proxy")),
     no_proxy |-> S(EnvProxy("NO_PROXY", "no_proxy"))]

\* C4: the proxy URLs set in the environment at load are in the proxy settings of
\* the loaded config, and the client of every later search call is configured
\* with the URL get_httpx_proxy selects from them
C4_ProxyFromEnv ==
    (server = "ready"
        /\ \E k \in {"http_proxy", "https_proxy", "all_proxy"} :
              validate_proxy_url(EnvProxySettings[k].s))
    => /\ \A k \in {"http_proxy", "https_proxy", "all_proxy"} :
             config.v.proxy[k] = EnvProxySettings[k]
       /\ client.state # "none" => client.proxy = get_httpx_proxy(EnvProxySettings)

IsTransportStep(e) == e.kind \in {"client", "post"}

\* C5: with an empty api_key a search call fails with MissingCredential, and no
\* client is created and no request issued, in any state of the call; also when
\* the load reported validation warnings
C5_MissingKey ==
    (server = "ready" /\ ~Truthy(config.v.perplexity.api_key))
    => /\ pc \in {"idle", "done"}
       /\ client = NoClient
       /\ request = NoRequest
       /\ \A i \in 1..Len(log) : ~IsTransportStep(log[i])
       /\ pc = "done" => Kind(outcome) = "MissingCredential"

\* a call failed for the missing key on a server whose load warned of the key and
\* of another setting
C5_Witness ==
    /\ pc = "done"
    /\ Kind(outcome) = "MissingCredential"
    /\ req.ctx
    /\ {W_API_KEY, W_MAX_REQUEST_SIZE} \subseteq result.warnings

\* a choice of the documented shape: an object whose message, if any, is an
\* object whose content, if any, is a str
WellFormedChoice(c) ==
    /\ c.t = "dict"
    /\ "message" \in DOMAIN c.f =>
          /\ c.f["message"].t = "dict"
          /\ "content" \in DOMAIN c.f["message"].f => c.f["message"].f["content"].t = "str"

WellFormedCitations(data) ==
    "citations" \in DOMAIN data.f =>
        /\ data.f["citations"].t = "list"
        /\ \A i \in 1..Len(data.f["citations"].q) : data.f["citations"].q[i].t = "str"

\* the payload of a 200 response is a JSON object
ObjectPayload == /\ request.sent
                 /\ received.exc = ""
                 /\ received.status = 200
                 /\ received.body.json
                 /\ received.body.val.t = "dict"

\* the payload of a 200 response, None when the body is not JSON
Payload == IF received.body.json THEN received.body.val ELSE None

HasChoices(data) == data.t = "dict" /\ "choices" \in DOMAIN data.f

\* C6: the outcome for a response: status other than 200 gives UpstreamStatusError
\* with the status and the body; 200 with a payload lacking a choices field gives
\* MalformedResponse; 200 with an empty list of choices gives EmptyResult, the
\* sentinel text returned, not raised; 200 with at least one choice gives Success
C6_ResponseClassification ==
    (pc = "done" /\ request.sent /\ received.exc = "")
    => /\ received.status # 200 =>
             /\ Kind(outcome) = "UpstreamStatusError"
             /\ outcome.status = received.status
             /\ outcome.body = received.body
       /\ (received.status = 200 /\ ~HasChoices(Payload)) =>
             Kind(outcome) = "MalformedResponse"
       /\ (received.status = 200 /\ HasChoices(Payload)
              /\ Payload.f["choices"] = L(<<>>)) =>
             /\ Kind(outcome) = "EmptyResult"
             /\ outcome.kind = "return"
             /\ outcome.text = NO_RESULTS
       /\ (received.status = 200 /\ HasChoices(Payload)
              /\ Payload.f["choices"].t = "list"
              /\ Len(Payload.f["choices"].q) >= 1) =>
             Kind(outcome) = "Success"

\* what holds of the code: the same for the 200 payloads of the documented shape
ClassificationOfDocumentedShape ==
    (pc = "done" /\ request.sent /\ received.exc = "")
    => /\ received.status # 200 =>
             /\ Kind(outcome) = "UpstreamStatusError"
             /\ outcome.status = received.status
             /\ outcome.body = received.body
       /\ ObjectPayload =>
             LET data == received.body.val
             IN  /\ "choices" \notin DOMAIN data.f => Kind(outcome) = "MalformedResponse"
                 /\ ("choices" \in DOMAIN data.f /\ data.f["choices"] = L(<<>>)) =>
                        /\ Kind(outcome) = "EmptyResult"
                        /\ outcome.kind = "return"
                        /\ outcome.text = NO_RESULTS
                 /\ ("choices" \in DOMAIN data.f
                        /\ data.f["choices"].t = "list"
                        /\ Len(data.f["choices"].q) >= 1
                        /\ \A i \in 1..Len(data.f["choices"].q) :
                              WellFormedChoice(data.f["choices"].q[i])
                        /\ WellFormedCitations(data)) =>
                        Kind(outcome) = "Success"

\* C7 as claimed: a failure of the POST before any response is raised, a network
\* or timeout failure as Timeout, a proxy failure as ProxyFailure, anything else
\* as UnexpectedError
C7_NetworkOrTimeoutIsTimeout ==
    (pc = "done" /\ received.exc # "")
    => /\ outcome.kind = "raise"
       /\ received.exc \in {"TimeoutException", "ConnectError"} => Kind(outcome) = "Timeout"
       /\ received.exc = "ProxyError" => Kind(outcome) = "ProxyFailure"
       /\ received.exc \notin {"TimeoutException", "ConnectError", "ProxyError"} =>
             Kind(outcome) = "UnexpectedError"

\* C7 amended: a failure of the POST before any response is raised, never
\* returned as text: a timeout as Timeout, a proxy failure as ProxyFailure, and
\* anything else, a network failure that is not a timeout included, as the
\* exception it is (UnexpectedError)
C7_TransportFailures ==
    (pc = "done" /\ received.exc # "")
    => /\ outcome.kind = "raise"
       /\ received.exc = "TimeoutException" => Kind(outcome) = "Timeout"
       /\ received.exc = "ProxyError" => Kind(outcome) = "ProxyFailure"
       /\ received.exc \notin {"TimeoutException", "ProxyError"} =>
             /\ Kind(outcome) = "UnexpectedError"
             /\ outcome.exc = received.exc

\* a refused connection ended the call as the catch-all error
C7_Witness ==
    /\ pc = "done"
    /\ received.exc = "ConnectError"
    /\ outcome = RaiseExc("ConnectError", "")

IsErrorEvent(e) == e.kind = "event" /\ e.level = "error"

IsProgressEvent(e) == e.kind = "event" /\ e.level \in {"info", "debug", "warning"}

C9_ModelAndSystemMessage ==
    request.sent =>
        LET p == config.v.perplexity
            base == IF req.model.t = "str" /\ req.model.s # "" THEN req.model.s ELSE p.model.s
            prefixed == p.model_prefix.s # "" /\ ~StartsWith(base, p.model_prefix.s)
        IN  /\ request.model = IF prefixed THEN p.model_prefix.s \o base ELSE base
            /\ apply_prefix(p.model_prefix, request.model) = request.model
            /\ request.system =
                  IF req.system_message.t = "str" /\ req.system_message.s # ""
                  THEN req.system_message.s ELSE p.system_message.s

\* a model that carries the prefix already was sent as it is
C9_Witness ==
    /\ request.sent
    /\ config.v.perplexity.model_prefix = S("org-")
    /\ req.model = S("org-sonar")
    /\ request.model = "org-sonar"

\* what get_proxy_config is to return for psettings
ProxyMapAsStated ==
    LET p == psettings
        own == [s \in {"http://", "https://"} |->
                    IF s = "http://" THEN p.http_proxy ELSE p.https_proxy]
    IN  \A s \in {"http://", "https://"} :
            IF own[s].s # "" THEN s \in DOMAIN presult.map /\ presult.map[s] = own[s]
            ELSE IF p.all_proxy.s # ""
            THEN s \in DOMAIN presult.map /\ presult.map[s] = p.all_proxy
            ELSE s \notin DOMAIN presult.map

\* C10 as claimed: get_proxy_config maps each scheme to its own URL if set, else
\* to all_proxy if set, else leaves it out; get_httpx_proxy returns https_proxy
\* if of the two scheme proxies only it is set, http_proxy if only it is set,
\* https_proxy if both are set, all_proxy if neither is set and all_proxy is,
\* and None if nothing is set
C10_ProxySelectionAsClaimed ==
    LET p == psettings
    IN  /\ presult.op = "get_proxy_config" => ProxyMapAsStated
        /\ presult.op = "get_httpx_proxy" =>
              /\ (p.https_proxy.s # "" /\ p.http_proxy.s = "") => presult.val = p.https_proxy
              /\ (p.http_proxy.s # "" /\ p.https_proxy.s = "") => presult.val = p.http_proxy
              /\ (p.http_proxy.s # "" /\ p.https_proxy.s # "") => presult.val = p.https_proxy
              /\ (p.http_proxy.s = "" /\ p.https_proxy.s = "" /\ p.all_proxy.s # "") =>
                    presult.val = p.all_proxy
              /\ (p.http_proxy.s = "" /\ p.https_proxy.s = "" /\ p.all_proxy.s = "") =>
                    presult.val = None

\* C10 amended: get_proxy_config as claimed; get_httpx_proxy returns https_proxy
\* if it is set, else all_proxy if it is set, else http_proxy if it is set, else
\* None: http_proxy is returned only when neither https_proxy nor all_proxy is set
C10_ProxySelection ==
    LET p == psettings
    IN  /\ presult.op = "get_proxy_config" => ProxyMapAsStated
        /\ presult.op = "get_httpx_proxy" =>
              presult.val = IF p.https_proxy.s # "" THEN p.https_proxy
                            ELSE IF p.all_proxy.s # "" THEN p.all_proxy
                            ELSE IF p.http_proxy.s # "" THEN p.http_proxy
                            ELSE None

\* the HTTP proxy and the generic proxy set, the HTTPS proxy not:
\* get_httpx_proxy gave the generic one
C10_Witness ==
    /\ presult.op = "get_httpx_proxy"
    /\ psettings.http_proxy.s # ""
    /\ psettings.https_proxy.s = ""
    /\ psettings.all_proxy.s # ""
    /\ presult.val = psettings.all_proxy

\* the URL the client is to use is not empty and not valid
InvalidProxy ==
    LET url == get_httpx_proxy(config.v.proxy)
    IN  Truthy(url) /\ ~validate_proxy_url(url.s)

\* C11: when the proxy URL selected is not empty but not valid, the client is
\* created with the warning and with no proxy, the request is issued, and the
\* call does not fail for the proxy: a response of the documented shape is
\* returned as text
C11_InvalidProxyFailOpen ==
    (server = "ready" /\ InvalidProxy)
    => /\ client.state # "none" =>
             /\ client.printed = "warning_invalid_proxy"
             /\ client.proxy = None
       /\ pc \in {"awaiting", "done"} =>
             /\ request.sent
             /\ \E i \in 1..Len(log) : log[i].kind = "post"
       /\ (pc = "done" /\ received \in {Response(200, JsonBody(x)) : x \in Payloads}) =>
             outcome.kind = "return"

\* a call under an invalid proxy URL returned a text
C11_Witness ==
    /\ pc = "done"
    /\ config.v.proxy.all_proxy = S("not-a-url")
    /\ InvalidProxy
    /\ client.printed = "warning_invalid_proxy"
    /\ Kind(outcome) = "Success"

\* the choice has a message with a content
HasContent(c) ==
    /\ c.t = "dict"
    /\ "message" \in DOMAIN c.f
    /\ c.f["message"].t = "dict"
    /\ "content" \in DOMAIN c.f["message"].f

Front(q) == SubSeq(q, 1, Len(q) - 1)

RECURSIVE SpaceSeparated(_)
\* the contents of the choices that have one, in order, one space between two
SpaceSeparated(cs) ==
    IF Len(cs) = 0 THEN ""
    ELSE LET before == SelectSeq(Front(cs), HasContent)
             last == cs[Len(cs)]
         IN  IF ~HasContent(last) THEN SpaceSeparated(Front(cs))
             ELSE IF Len(before) = 0 THEN last.f["message"].f["content"].s
             ELSE SpaceSeparated(Front(cs)) \o " " \o last.f["message"].f["content"].s

RECURSIVE NumberedLines(_)
\* one line "[i] citation" for each citation, i its place in the list from 1
NumberedLines(ct) ==
    IF Len(ct) = 0 THEN ""
    ELSE NumberedLines(Front(ct))
         \o "[" \o ToString(Len(ct)) \o "] " \o ct[Len(ct)].s \o "\n"

\* a 200 response with at least one choice, all of the documented shape
SuccessResponse ==
    /\ ObjectPayload
    /\ HasChoices(Payload)
    /\ Payload.f["choices"].t = "list"
    /\ Len(Payload.f["choices"].q) >= 1
    /\ \A i \in 1..Len(Payload.f["choices"].q) : WellFormedChoice(Payload.f["choices"].q[i])
    /\ WellFormedCitations(Payload)

\* the citation list of the payload, empty when there is none
CitationList ==
    IF "citations" \in DOMAIN Payload.f THEN Payload.f["citations"].q ELSE <<>>

\* C12: the text returned for a Success response is the contents of the choices
\* that have one, in order, joined by one space; followed, when the citation
\* list is not empty, by a blank line, the header line and one line "[i]
\* citation" per citation, numbered from 1 in the order of the list, duplicates
\* kept; and by nothing when the list is empty
C12_ResultFormat ==
    /\ Slice(CITATIONS_HEADER, 1, 2) = "\n\n"
    /\ CharAt(CITATIONS_HEADER, Len(CITATIONS_HEADER)) = "\n"
    /\ \A i \in 3..(Len(CITATIONS_HEADER) - 1) : CharAt(CITATIONS_HEADER, i) # "\n"
    /\ (pc = "done" /\ SuccessResponse) =>
          outcome = Return(SpaceSeparated(Payload.f["choices"].q)
                           \o (IF Len(CitationList) = 0 THEN ""
                               ELSE CITATIONS_HEADER \o NumberedLines(CitationList)))

\* the example of the design: contents A and B, one citation
C12_Witness ==
    /\ pc = "done"
    /\ SuccessResponse
    /\ Payload.f["choices"] = L(<<D("message" :> D("content" :> S("A"))),
                                   D("message" :> D("content" :> S("B")))>>)
    /\ CitationList = <<S("http://x")>>
    /\ outcome.text = "A B\n\nCitations:\n[1] http://x\n"

\* a choice with no content between two with one, and a citation given twice
C12_SkippedAndRepeated ==
    /\ pc = "done"
    /\ SuccessResponse
    /\ Len(Payload.f["choices"].q) = MaxChoices
    /\ ~HasContent(Payload.f["choices"].q[1])
    /\ CitationList = <<S("http://y"), S("http://y")>>
    /\ outcome.text = "B\n\nCitations:\n[1] http://y\n[2] http://y\n"

\* the object the last save_config call was to save
SavedObject == loaded[saved.of].config.v

\* C13: save_config writes perplexity, server and proxy with debug and
\* config_version to the file, making the directory if there is none, and
\* raises the I/O error if the write fails
C13_SaveWritesAll ==
    (saved.called /\ saved.of # 0)
    => /\ saved.io = "ok" =>
             /\ saved.exc = ""
             /\ saved.file.kind = "json"
             /\ saved.file.val.t = "dict"
             /\ DOMAIN saved.file.val.f = {"perplexity", "server", "proxy", "debug", "config_version"}
             /\ saved.file.val.f["perplexity"] = D(SavedObject.perplexity)
             /\ saved.file.val.f["server"] = D(SavedObject.server)
             /\ saved.file.val.f["proxy"] = D(SavedObject.proxy)
             /\ saved.file.val.f["debug"] = SavedObject.debug
             /\ saved.file.val.f["config_version"] = SavedObject.config_version
       /\ saved.io # "ok" => saved.exc = "OSError"

\* what holds of the code: the same without the proxy settings
SaveWritesAllButProxy ==
    (saved.called /\ saved.of # 0)
    => /\ saved.io = "ok" =>
             /\ saved.exc = ""
             /\ saved.file.kind = "json"
             /\ saved.file.val.t = "dict"
             /\ DOMAIN saved.file.val.f = {"perplexity", "server", "debug", "config_version"}
             /\ saved.file.val.f["perplexity"] = D(SavedObject.perplexity)
             /\ saved.file.val.f["server"] = D(SavedObject.server)
             /\ saved.file.val.f["debug"] = SavedObject.debug
             /\ saved.file.val.f["config_version"] = SavedObject.config_version
       /\ saved.io # "ok" => saved.exc = "OSError"

\* every load_config call that read the file a save_config call left returned
\* the settings and the debug flag of the object saved
RoundTripHolds ==
    (saved.called /\ saved.exc = "" /\ saved.of # 0)
    => \A j \in 1..Len(loaded) :
          loaded[j].from = saved.file =>
              /\ loaded[j].exc = ""
              /\ loaded[j].config.v.perplexity = SavedObject.perplexity
              /\ loaded[j].config.v.server = SavedObject.server
              /\ loaded[j].config.v.debug = SavedObject.debug

\* a step leaves the objects returned so far as they are
ObjectsKept ==
    /\ Len(loaded') >= Len(loaded)
    /\ \A i \in 1..Len(loaded) : loaded'[i] = loaded[i]

\* C18: with no configuration variable in the environment, saving a config that
\* load_config returned and loading the file again gives a config with the same
\* perplexity settings, server settings and debug flag; and a load_config call
\* never changes an object returned before
C18_RoundTrip == [](RoundTripHolds) /\ [][ObjectsKept]_vars

\* a config holding a setting of the file was saved and loaded again
C18_Witness ==
    /\ saved.called
    /\ saved.exc = ""
    /\ saved.of = 1
    /\ Len(loaded) = 2
    /\ loaded[2].exc = ""
    /\ loaded[2].from = saved.file
    /\ loaded[1].from # saved.file
    /\ \E q \in SettingsPaths : loaded[1].config.v[q[1]][q[2]] # DefaultOf[q[1]][q[2]]

\* the calls that went as far as creating a client
WithClient == {c \in CallIds : calls[c].client # 0}

Over(c) == calls[c].pc \in {"idle", "done"}

Cancelled(c) == calls[c].pc = "done" /\ calls[c].outcome.exc = "CancelledError"

Posts(c) == Cardinality({i \in 1..Len(calls[c].log) : calls[c].log[i].kind = "post"})

\* C14: every call that reaches the transport has a client of its own, made by
\* that call and by no other; the client is open while the POST is awaited and
\* closed once the call is over, however it ended (result, exception or
\* cancellation); when every call is over, no client is open
C14_OwnClientClosed ==
    /\ \A c \in CallIds :
          /\ calls[c].pc = "awaiting" =>
                /\ c \in WithClient
                /\ clients[calls[c].client].state = "open"
          /\ calls[c].request.sent => c \in WithClient
          /\ c \in WithClient =>
                /\ calls[c].client \in 1..Len(clients)
                /\ clients[calls[c].client].owner = c
                /\ \A d \in WithClient \ {c} : calls[d].client # calls[c].client
                /\ calls[c].pc = "done" => clients[calls[c].client].state = "closed"
    /\ Len(clients) = Cardinality(WithClient)
    /\ (\A c \in CallIds : Over(c)) =>
          \A i \in 1..Len(clients) : clients[i].state = "closed"

\* two calls in flight at once, then one cancelled at its POST and the other
\* ended by a timeout
C14_Witness ==
    /\ Len(clients) = 2
    /\ \A i \in 1..2 : clients[i].state = "closed"
    /\ \E c, d \in CallIds :
          /\ Cancelled(c) /\ calls[c].client = 1
          /\ calls[d].pc = "done" /\ calls[d].client = 2
          /\ calls[d].received = TransportError("TimeoutException")

\* extra reachability: two clients open at the same moment
C14_BothOpen ==
    Len(clients) = 2 /\ \A i \in 1..2 : clients[i].state = "open"

\* C15: two calls that differ only in having a sink, and that met the same
\* transport result, end with the same outcome and sent the same request
C15_SinkAdvisory ==
    \A a, b \in CallIds :
        (/\ calls[a].pc = "done" /\ calls[b].pc = "done"
         /\ ~Cancelled(a) /\ ~Cancelled(b)
         /\ calls[a].req.ctx /\ ~calls[b].req.ctx
         /\ calls[a].req.keyword = calls[b].req.keyword
         /\ calls[a].req.model = calls[b].req.model
         /\ calls[a].req.system_message = calls[b].req.system_message
         /\ calls[a].received = calls[b].received)
        => /\ calls[a].outcome = calls[b].outcome
           /\ calls[a].request = calls[b].request
           /\ Posts(a) = Posts(b)

\* a call with a sink and one without, both answered by a status other than
\* 200: the first reported the error, both raised it
C15_Witness ==
    \E a, b \in CallIds :
        /\ calls[a].pc = "done" /\ calls[b].pc = "done"
        /\ calls[a].req.ctx /\ ~calls[b].req.ctx
        /\ calls[a].req.model = calls[b].req.model
        /\ calls[a].received = Response(500, TextBody("unavailable"))
        /\ calls[b].received = calls[a].received
        /\ \E i \in 1..Len(calls[a].log) : IsErrorEvent(calls[a].log[i])
        /\ \A i \in 1..Len(calls[b].log) : calls[b].log[i].kind # "event"

MaxRetries == NumVal(config.v.perplexity.max_retries)

\* C16 as stated: a call issues at most one POST, whatever max_retries holds,
\* and the number of POSTs never exceeds max_retries + 1
C16_NoRetryAsClaimed ==
    \A c \in CallIds :
        /\ Posts(c) <= 1
        /\ server = "ready" => Posts(c) <= MaxRetries + 1

\* C16: a call issues at most one POST, to the configured api_url, whatever
\* max_retries holds and however the POST ends; the number of POSTs does not
\* exceed max_retries + 1 when max_retries is not negative
C16_NoRetry ==
    \A c \in CallIds :
        /\ Posts(c) <= 1
        /\ (server = "ready" /\ MaxRetries >= 0) => Posts(c) <= MaxRetries + 1
        /\ calls[c].request.sent =>
              /\ Posts(c) = 1
              /\ calls[c].request.url = config.v.perplexity.api_url

\* a call whose only POST timed out, under the default max_retries of 3
C16_Witness ==
    \E c \in CallIds :
        /\ calls[c].pc = "done"
        /\ calls[c].received = TransportError("TimeoutException")
        /\ config.v.perplexity.max_retries = I(3)
        /\ Posts(c) = 1

\* extra reachability: the same under max_retries = 0
C16_ZeroRetries ==
    \E c \in CallIds :
        /\ calls[c].pc = "done"
        /\ calls[c].received = TransportError("TimeoutException")
        /\ config.v.perplexity.max_retries = I(0)
        /\ Posts(c) = 1

SameCall(a, b) ==
    /\ calls[a].pc = "done" /\ calls[b].pc = "done"
    /\ Cancelled(a) = Cancelled(b)
    /\ calls[a].req = calls[b].req
    /\ calls[a].received = calls[b].received

\* C17: no step of a search call changes the AppConfig or the configuration
\* manager's state, and two calls with the same request and the same transport
\* result end with the same outcome, the same request sent and the same
\* events, whatever the other call did in between
C17_CallsIndependent ==
    /\ [](\A a, b \in CallIds :
            SameCall(a, b) /\ ~Cancelled(a) =>
                /\ calls[a].outcome = calls[b].outcome
                /\ calls[a].request = calls[b].request
                /\ calls[a].log = calls[b].log)
    /\ [][server = "ready" => /\ config' = config
                              /\ cm_config' = cm_config
                              /\ file' = file
                              /\ env' = env]_vars

\* two calls with the same arguments ran interleaved (both clients open at
\* once) and both got the same success response
C17_Witness ==
    /\ Len(clients) = 2
    /\ calls[1].pc = "done" /\ calls[2].pc = "done"
    /\ calls[1].req = calls[2].req
    /\ calls[1].req.model = config.v.perplexity.model
    /\ calls[1].received = calls[2].received
    /\ calls[1].received.status = 200
    /\ calls[1].outcome.exc = ""
    /\ calls[2].client = 1 /\ calls[1].client = 2

====
